---------------------------- MODULE Spec2Model ----------------------------
(***************************************************************************)
(* DDRenamer: the drag-and-drop handler of src/src/App.tsx (the batch      *)
(* dispatcher and the sequence counter it owns) together with the rename   *)
(* engine behind invoke("handle_rename").  The engine is Rust code that is *)
(* not part of src/; it is modelled from spec.md sections 4.1 - 4.5.       *)
(*                                                                         *)
(* File names are sequences of one-character strings, so that splitting,   *)
(* padding, trimming and replacing are computed and not assumed.           *)
(***************************************************************************)
EXTENDS Integers, Sequences, FiniteSets, TLC

(***************************************************************************)
(* Bounds of the model.                                                    *)
(***************************************************************************)
MaxPaths  == 2   \* longest drop payload
MaxDrops  == 2   \* drop events with a non-empty payload per behaviour
MaxEvents == 2   \* user events (drops, drag events, config edits) per behaviour
MaxFaults == 1   \* injected OS failures / rejected invoke calls per behaviour

(***************************************************************************)
(* Program constants.                                                      *)
(***************************************************************************)
LogCap == 50

Modes == {"fixed", "serial", "replace", "add", "trim", "extension"}

(***************************************************************************)
(* Generic sequence helpers.                                               *)
(***************************************************************************)
Range(s) == {s[k] : k \in DOMAIN s}

Min(a, b) == IF a <= b THEN a ELSE b

Max(a, b) == IF a >= b THEN a ELSE b

Take(s, n) == SubSeq(s, 1, Min(n, Len(s)))

StartsWith(s, p) == Len(p) <= Len(s) /\ SubSeq(s, 1, Len(p)) = p

(***************************************************************************)
(* 4.1 Name Splitter.  The extension is what follows the last "." of the   *)
(* name; a name without ".", or whose only "." is its first character, has *)
(* no extension.                                                           *)
(***************************************************************************)
LastDot(name) ==
    LET dots == {k \in DOMAIN name : name[k] = "."}
    IN  IF dots = {} THEN 0 ELSE CHOOSE k \in dots : \A m \in dots : m <= k

Split(name) ==
    LET d == LastDot(name)
    IN  IF d <= 1
        THEN [stem |-> name, hasExt |-> FALSE, ext |-> << >>]
        ELSE [stem   |-> SubSeq(name, 1, d - 1),
              hasExt |-> TRUE,
              ext    |-> SubSeq(name, d + 1, Len(name))]

Join(stem, hasExt, ext) == IF hasExt THEN stem \o <<".">> \o ext ELSE stem

(***************************************************************************)
(* 4.2 Mode Transformers.                                                  *)
(***************************************************************************)
DigitChar(d) == <<"0", "1", "2", "3", "4", "5", "6", "7", "8", "9">>[d + 1]

RECURSIVE Digits(_)
Digits(n) == IF n < 10 THEN <<DigitChar(n)>>
             ELSE Digits(n \div 10) \o <<DigitChar(n % 10)>>

RECURSIVE Zeros(_)
Zeros(k) == IF k <= 0 THEN << >> ELSE <<"0">> \o Zeros(k - 1)

ZeroPadded(n, pad) == Zeros(pad - Len(Digits(n))) \o Digits(n)

RECURSIVE ReplaceAll(_, _, _)
ReplaceAll(s, from, to) ==
    IF from = << >> THEN
        \* an empty pattern matches at every boundary
        IF s = << >> THEN to ELSE to \o <<Head(s)>> \o ReplaceAll(Tail(s), from, to)
    ELSE IF s = << >> THEN << >>
    ELSE IF StartsWith(s, from)
         THEN to \o ReplaceAll(SubSeq(s, Len(from) + 1, Len(s)), from, to)
         ELSE <<Head(s)>> \o ReplaceAll(Tail(s), from, to)

\* The patterns of the model are literal text except for "(", which does not
\* compile as a regular expression.
ValidPattern(p) == "(" \notin Range(p)

RECURSIVE StripDots(_)
StripDots(e) == IF e # << >> /\ Head(e) = "." THEN StripDots(Tail(e)) ELSE e

TrimStem(stem, count, position) ==
    IF count >= Len(stem) THEN << >>
    ELSE IF position = "start" THEN SubSeq(stem, count + 1, Len(stem))
    ELSE SubSeq(stem, 1, Len(stem) - count)

\* The candidate [status, stem, hasExt, ext] of a command applied to a name.
Transform(name, cmd) ==
    LET c  == Split(name)
        cf == cmd.config
        ok(stem, hasExt, ext) ==
            [status |-> "Ok", stem |-> stem, hasExt |-> hasExt, ext |-> ext]
    IN  CASE cmd.mode = "Fixed" ->
                ok(cf.name, cf.keep_ext /\ c.hasExt, c.ext)
          [] cmd.mode = "Serial" ->
                ok(cf.prefix \o (IF cf.keep_original THEN c.stem ELSE << >>)
                     \o ZeroPadded(cf.number, cf.pad) \o cf.suffix,
                   cf.keep_ext /\ c.hasExt, c.ext)
          [] cmd.mode = "Replace" ->
                IF cf.use_regex /\ ~ValidPattern(cf.from)
                THEN [status |-> "InvalidPattern", stem |-> c.stem,
                      hasExt |-> c.hasExt, ext |-> c.ext]
                ELSE ok(ReplaceAll(c.stem, cf.from, cf.to), c.hasExt, c.ext)
          [] cmd.mode = "Add" ->
                ok(IF cf.position = "start" THEN cf.text \o c.stem
                   ELSE c.stem \o cf.text, c.hasExt, c.ext)
          [] cmd.mode = "Trim" ->
                ok(TrimStem(c.stem, cf.count, cf.position), c.hasExt, c.ext)
          [] cmd.mode = "Extension" ->
                ok(c.stem, TRUE, StripDots(cf.new_ext))

(***************************************************************************)
(* 4.4 Validator and 4.5 Filesystem Applier.  fs maps each existing name   *)
(* (of the one directory of the model) to the identity of the file that    *)
(* carries it.  osFails is the outcome of the native rename.               *)
(***************************************************************************)
Validate(fs, source, t) ==
    IF t.status # "Ok" THEN t.status
    ELSE IF t.stem = << >> THEN "EmptyName"
    ELSE LET dest == Join(t.stem, t.hasExt, t.ext)
         IN  IF dest \in DOMAIN fs /\ dest # source THEN "AlreadyExists" ELSE "Ok"

Apply(fs, source, dest) ==
    IF source = dest THEN fs
    ELSE [n \in (DOMAIN fs \ {source}) \cup {dest} |->
            IF n = dest THEN fs[source] ELSE fs[n]]

\* handle_rename: [fs, res] for one {path, cmd} call.
HandleRename(fs, path, cmd, osFails) ==
    LET t    == Transform(path, cmd)
        v    == Validate(fs, path, t)
        dest == Join(t.stem, t.hasExt, t.ext)
        res(status, newName) ==
            [path |-> path, status |-> status, new_name |-> newName]
    IN  IF v # "Ok" THEN [fs |-> fs, res |-> res(v, << >>)]
        ELSE IF osFails \/ path \notin DOMAIN fs
             THEN [fs |-> fs, res |-> res("IoError", << >>)]
        ELSE [fs |-> Apply(fs, path, dest), res |-> res("Success", dest)]

(***************************************************************************)
(* The files of the model and the texts a user can type.                   *)
(***************************************************************************)
AbJpg == <<"a", "b", ".", "j", "p", "g">>

BJpg == <<"b", ".", "j", "p", "g">>

AbPng == <<"a", "b", ".", "p", "n", "g">>

Files == {AbJpg, BJpg, AbPng}

InitialFs == [n \in Files |-> CASE n = AbJpg -> 1 [] n = BJpg -> 2 [] n = AbPng -> 3]

\* The payloads of a drop event: the OS hands over distinct paths.
Payloads ==
    {p \in UNION {[1..n -> Files] : n \in 1..MaxPaths} :
        \A j, k \in DOMAIN p : j # k => p[j] # p[k]}

TextFields == {"fixedName", "serialText", "replaceFrom", "replaceTo", "addText",
               "newExtension"}

TextChoices(f) ==
    CASE f = "fixedName"    -> {<< >>, <<"x">>}
      [] f = "serialText"   -> {<<"I", "m", "g", "_">>, << >>}
      [] f = "replaceFrom"  -> {<< >>, <<"a">>, <<"(">>}
      [] f = "replaceTo"    -> {<< >>, <<"x", ".">>}
      [] f = "addText"      -> {<< >>, <<".", "x">>}
      [] f = "newExtension" -> {<<"j", "p", "g">>, <<".", "p", "n", "g">>}

BoolFields == {"keepExt", "removeOriginal", "useRegex"}

PosFields == {"serialPosition", "addPos", "trimPos"}

(***************************************************************************)
(* State.                                                                  *)
(***************************************************************************)
VARIABLES
    activeTab,            \* useState<RenameMode>("fixed")
    serialStart,          \* useState(1)
    manualIncrement,      \* useState(false)
    currentManualCount,   \* useState(1)
    fields,               \* the other config states, by name
    configRef,            \* configRef.current
    effectsPending,       \* a render scheduled by a finished batch has not run yet
    isDragOver,           \* useState(false)
    listening,            \* the drag-drop listener is registered
    logs,                 \* useState<LogEntry[]>([])
    logIdCounter,         \* let logIdCounter = 0
    fs,                   \* the directory: name -> file identity
    batches,              \* one record per running or finished handler invocation
    inflight,             \* invoke("handle_rename") calls that have not settled
    issued,               \* history: every invoke call, in the order issued
    settled,              \* history: every settled call, in the order settled
    events,               \* user events so far
    drops,                \* non-empty drops so far
    faults                \* OS failures and rejected calls so far

vars == <<activeTab, serialStart, manualIncrement, currentManualCount, fields,
          configRef, effectsPending, isDragOver, listening, logs, logIdCounter,
          fs, batches, inflight, issued, settled, events, drops, faults>>

\* The object literal assigned to configRef.current.
Snapshot(tab, start, manual, count, fl) ==
    [activeTab |-> tab, fixedName |-> fl.fixedName, keepExt |-> fl.keepExt,
     serialText |-> fl.serialText, serialPosition |-> fl.serialPosition,
     serialStart |-> start, serialPad |-> fl.serialPad,
     removeOriginal |-> fl.removeOriginal, manualIncrement |-> manual,
     currentManualCount |-> count,
     replaceFrom |-> fl.replaceFrom, replaceTo |-> fl.replaceTo,
     useRegex |-> fl.useRegex, addText |-> fl.addText, addPos |-> fl.addPos,
     trimCount |-> fl.trimCount, trimPos |-> fl.trimPos,
     newExtension |-> fl.newExtension]

InitFields ==
    [fixedName |-> << >>, keepExt |-> TRUE,
     serialText |-> <<"I", "m", "g", "_">>, serialPosition |-> "start",
     serialPad |-> 3, removeOriginal |-> FALSE,
     replaceFrom |-> << >>, replaceTo |-> << >>, useRegex |-> FALSE,
     addText |-> << >>, addPos |-> "end", trimCount |-> 1, trimPos |-> "end",
     newExtension |-> <<"j", "p", "g">>]

\* What every behaviour starts with, whatever the configuration.
InitRest ==
    /\ configRef = Snapshot(activeTab, serialStart, manualIncrement,
                            currentManualCount, fields)
    /\ effectsPending = FALSE
    /\ isDragOver = FALSE
    /\ listening = TRUE
    /\ logs = << >>
    /\ logIdCounter = 0
    /\ fs = InitialFs
    /\ batches = << >>
    /\ inflight = {}
    /\ issued = << >>
    /\ settled = << >>
    /\ events = 0
    /\ drops = 0
    /\ faults = 0

\* The state after construction (lines 38-73), or after the user has opened
\* the Serial tab or ticked the manual-increment box.
StartTabs == {"fixed", "serial"}

Init ==
    /\ activeTab \in StartTabs
    /\ serialStart = 1
    /\ manualIncrement \in BOOLEAN
    /\ currentManualCount = 1
    /\ fields = InitFields
    /\ InitRest

(***************************************************************************)
(* Config edits.  A click or an input event is a discrete React event: the *)
(* re-render and its effects (lines 84-104) run before the next event, so  *)
(* they are part of the action.                                            *)
(***************************************************************************)
\* useEffect "Sync manual count with serial start": runs when serialStart or
\* manualIncrement changed.
SyncManualCount(start, manual, count) == IF ~manual THEN start ELSE count

\* The state after an edit has produced (tab, start, manual, fl).
Rendered(tab, start, manual, fl) ==
    LET depsChanged == start # serialStart \/ manual # manualIncrement
        count == IF depsChanged
                 THEN SyncManualCount(start, manual, currentManualCount)
                 ELSE currentManualCount
    IN  /\ activeTab' = tab
        /\ serialStart' = start
        /\ manualIncrement' = manual
        /\ fields' = fl
        /\ currentManualCount' = count
        /\ configRef' = Snapshot(tab, start, manual, count, fl)
        /\ effectsPending' = FALSE
        /\ events' = events + 1
        /\ UNCHANGED <<isDragOver, listening, logs, logIdCounter, fs, batches,
                       inflight, issued, settled, drops, faults>>

CanEdit == events < MaxEvents

SelectTab(t) ==
    /\ CanEdit
    /\ t # activeTab
    /\ Rendered(t, serialStart, manualIncrement, fields)

SetText(f, v) ==
    /\ CanEdit
    /\ v # fields[f]
    /\ Rendered(activeTab, serialStart, manualIncrement, [fields EXCEPT ![f] = v])

ToggleBool(f) ==
    /\ CanEdit
    /\ Rendered(activeTab, serialStart, manualIncrement,
                [fields EXCEPT ![f] = ~fields[f]])

SelectPos(f, v) ==
    /\ CanEdit
    /\ v # fields[f]
    /\ Rendered(activeTab, serialStart, manualIncrement, [fields EXCEPT ![f] = v])

SerialPadStep(d) ==
    /\ CanEdit
    /\ Rendered(activeTab, serialStart, manualIncrement,
                [fields EXCEPT !.serialPad =
                    IF d < 0 THEN Max(1, fields.serialPad - 1)
                    ELSE fields.serialPad + 1])

TrimCountStep(d) ==
    /\ CanEdit
    /\ Rendered(activeTab, serialStart, manualIncrement,
                [fields EXCEPT !.trimCount =
                    IF d < 0 THEN Max(0, fields.trimCount - 1)
                    ELSE fields.trimCount + 1])

SerialStartStep(d) ==
    /\ CanEdit
    /\ Rendered(activeTab,
                IF d < 0 THEN Max(0, serialStart - 1) ELSE serialStart + 1,
                manualIncrement, fields)

SetManualIncrement(v) ==
    /\ CanEdit
    /\ v # manualIncrement
    /\ Rendered(activeTab, serialStart, v, fields)

(***************************************************************************)
(* The drag-drop handler (lines 116-226).                                  *)
(***************************************************************************)
\* A numbering that takes the running counter under both policies.
NumFromCounter(cfg, currentSeq, i) == currentSeq

\* line 144: const num = cfg.manualIncrement ? currentSeq : cfg.serialStart + i
Num(cfg, currentSeq, i) ==
    IF cfg.manualIncrement THEN currentSeq ELSE cfg.serialStart + i

\* line 145: if (cfg.manualIncrement) currentSeq++
NextSeq(cfg, currentSeq) ==
    IF cfg.manualIncrement THEN currentSeq + 1 ELSE currentSeq

\* lines 147-190: the command built for the snapshot's tab.
BuildCmd(cfg, num) ==
    CASE cfg.activeTab = "fixed" ->
            [mode |-> "Fixed",
             config |-> [name |-> cfg.fixedName, keep_ext |-> cfg.keepExt]]
      [] cfg.activeTab = "serial" ->
            [mode |-> "Serial",
             config |-> [prefix |-> IF cfg.serialPosition = "start"
                                    THEN cfg.serialText ELSE << >>,
                         suffix |-> IF cfg.serialPosition = "end"
                                    THEN cfg.serialText ELSE << >>,
                         number |-> num,
                         pad |-> cfg.serialPad,
                         keep_ext |-> cfg.keepExt,
                         keep_original |-> ~cfg.removeOriginal]]
      [] cfg.activeTab = "replace" ->
            [mode |-> "Replace",
             config |-> [from |-> cfg.replaceFrom, to |-> cfg.replaceTo,
                         use_regex |-> cfg.useRegex]]
      [] cfg.activeTab = "add" ->
            [mode |-> "Add",
             config |-> [text |-> cfg.addText, position |-> cfg.addPos]]
      [] cfg.activeTab = "trim" ->
            [mode |-> "Trim",
             config |-> [count |-> cfg.trimCount, position |-> cfg.trimPos]]
      [] cfg.activeTab = "extension" ->
            [mode |-> "Extension", config |-> [new_ext |-> cfg.newExtension]]

\* The entry of a resolved call marked successful whatever the status.
ResolvedEntryAlwaysSuccess(id, res) ==
    [id      |-> id,
     path    |-> res.path,
     status  |-> IF res.status = "Success"
                 THEN IF res.new_name # << >> THEN <<"->">> \o res.new_name
                      ELSE <<"OK">>
                 ELSE <<res.status>>,
     success |-> TRUE]

\* lines 197-208: the entry of a resolved call.  The status text is a
\* sequence: <<"->", new_name...>>, <<"OK">> (the text shown for a success
\* without new_name) or <<res.status>>.
ResolvedEntry(id, res) ==
    [id      |-> id,
     path    |-> res.path,
     status  |-> IF res.status = "Success"
                 THEN IF res.new_name # << >> THEN <<"->">> \o res.new_name
                      ELSE <<"OK">>
                 ELSE <<res.status>>,
     success |-> res.status = "Success"]

\* lines 209-217: the entry of a rejected call.
RejectedEntry(id, filePath) ==
    [id |-> id, path |-> filePath, status |-> <<"Error: rejected">>,
     success |-> FALSE]

\* The log cut to its last entries instead of its first.
SurfaceLogsKeepingOldest(newLogs, prev) ==
    LET all == newLogs \o prev
    IN  SubSeq(all, Max(1, Len(all) - LogCap + 1), Len(all))

\* The log replaced by the batch's entries, the earlier log forgotten.
SurfaceLogsOverwriting(newLogs, prev) == Take(newLogs, LogCap)

\* The batch's entries put behind the earlier ones.
SurfaceLogsBehind(newLogs, prev) == Take(prev \o newLogs, LogCap)

\* line 221: setLogs((prev) => [...newLogs, ...prev].slice(0, 50))
SurfaceLogs(newLogs, prev) == Take(newLogs \o prev, LogCap)

\* lines 223-225: if (cfg.manualIncrement) setCurrentManualCount(currentSeq)
CountAfterBatch(cfg, currentSeq, count) ==
    IF cfg.manualIncrement THEN currentSeq ELSE count

\* The loop body with keep_ext read negated, and with keep_ext read from the
\* other checkbox of the Serial tab.
IssueCallNegatedKeepExt(b, bt) ==
    LET num == Num(bt.cfg, bt.currentSeq, bt.i)
        call == [b |-> b, i |-> bt.i, path |-> bt.paths[bt.i + 1],
                 cmd |-> BuildCmd([bt.cfg EXCEPT !.keepExt = ~bt.cfg.keepExt], num),
                 num |-> num]
    IN  [bt   |-> [bt EXCEPT !.currentSeq = NextSeq(bt.cfg, bt.currentSeq)],
         call |-> call]

IssueCallWrongCheckbox(b, bt) ==
    LET num == Num(bt.cfg, bt.currentSeq, bt.i)
        call == [b |-> b, i |-> bt.i, path |-> bt.paths[bt.i + 1],
                 cmd |-> BuildCmd([bt.cfg EXCEPT !.keepExt = ~bt.cfg.removeOriginal],
                                  num),
                 num |-> num]
    IN  [bt   |-> [bt EXCEPT !.currentSeq = NextSeq(bt.cfg, bt.currentSeq)],
         call |-> call]

\* The loop body building the command from the configuration as it is now.
IssueCallLiveConfig(b, bt) ==
    LET num == Num(configRef, bt.currentSeq, bt.i)
        call == [b |-> b, i |-> bt.i, path |-> bt.paths[bt.i + 1],
                 cmd |-> BuildCmd(configRef, num), num |-> num]
    IN  [bt   |-> [bt EXCEPT !.currentSeq = NextSeq(configRef, bt.currentSeq)],
         call |-> call]

\* lines 140-196: one pass of the loop body of batch b (record bt) down to the
\* await: the number is taken, the command is built and the call is issued.
IssueCall(b, bt) ==
    LET num == Num(bt.cfg, bt.currentSeq, bt.i)
        call == [b |-> b, i |-> bt.i, path |-> bt.paths[bt.i + 1],
                 cmd |-> BuildCmd(bt.cfg, num), num |-> num]
    IN  [bt   |-> [bt EXCEPT !.currentSeq = NextSeq(bt.cfg, bt.currentSeq)],
         call |-> call]

\* History kept with a batch: the counter state and whether every earlier
\* batch had ended when the drop was received.
AtDrop ==
    [count |-> currentManualCount,
     idle  |-> \A o \in DOMAIN batches : batches[o].pc = "done"]

\* A drop that issues the calls of all its paths without awaiting any.
DropIssuingAll(paths) ==
    /\ listening
    /\ events < MaxEvents
    /\ drops < MaxDrops
    /\ LET cfg == configRef
           b   == Len(batches) + 1
           seq0 == IF cfg.manualIncrement THEN cfg.currentManualCount
                   ELSE cfg.serialStart
           calls == [k \in 1..Len(paths) |->
                       LET num == Num(cfg, seq0 + k - 1, k - 1)
                       IN  [b |-> b, i |-> k - 1, path |-> paths[k],
                            cmd |-> BuildCmd(cfg, num), num |-> num]]
       IN  /\ batches' = Append(batches,
                  [paths |-> paths, cfg |-> cfg, i |-> 0,
                   currentSeq |-> seq0 + Len(paths),
                   newLogs |-> << >>, pc |-> "await", atDrop |-> AtDrop])
           /\ inflight' = inflight \cup Range(calls)
           /\ issued' = issued \o calls
    /\ isDragOver' = FALSE
    /\ events' = events + 1
    /\ drops' = drops + 1
    /\ UNCHANGED <<activeTab, serialStart, manualIncrement, currentManualCount,
                   fields, configRef, effectsPending, listening, logs,
                   logIdCounter, fs, settled, faults>>

\* lines 129-196: a drop with paths: the snapshot is read, the loop is entered
\* and the first call is issued.
Drop(paths) ==
    /\ listening
    /\ events < MaxEvents
    /\ drops < MaxDrops
    /\ LET cfg == configRef
           b   == Len(batches) + 1
           bt0 == [paths |-> paths, cfg |-> cfg, i |-> 0,
                   currentSeq |-> IF cfg.manualIncrement
                                  THEN cfg.currentManualCount
                                  ELSE cfg.serialStart,
                   newLogs |-> << >>, pc |-> "await", atDrop |-> AtDrop]
           st  == IssueCall(b, bt0)
       IN  /\ batches' = Append(batches, st.bt)
           /\ inflight' = inflight \cup {st.call}
           /\ issued' = Append(issued, st.call)
    /\ isDragOver' = FALSE
    /\ events' = events + 1
    /\ drops' = drops + 1
    /\ UNCHANGED <<activeTab, serialStart, manualIncrement, currentManualCount,
                   fields, configRef, effectsPending, listening, logs,
                   logIdCounter, fs, settled, faults>>

\* lines 197-226: the continuation of batch call.b after its call settled with
\* the log entry `entry`: the entry is unshifted, and the loop either issues
\* the next call or ends, surfacing the logs and the counter.  (\E over a
\* one-element set names a value.)
Continue(call, entry) ==
    \E bt1 \in {[batches[call.b] EXCEPT !.newLogs = <<entry>> \o @, !.i = @ + 1]} :
        /\ logIdCounter' = logIdCounter + 1
        /\ IF bt1.i < Len(bt1.paths)
           THEN \E st \in {IssueCall(call.b, bt1)} :
                    /\ batches' = [batches EXCEPT ![call.b] = st.bt]
                    /\ inflight' = (inflight \ {call}) \cup {st.call}
                    /\ issued' = Append(issued, st.call)
                    /\ UNCHANGED <<logs, currentManualCount, effectsPending>>
           ELSE /\ batches' = [batches EXCEPT ![call.b] = [bt1 EXCEPT !.pc = "done"]]
                /\ inflight' = inflight \ {call}
                /\ logs' = SurfaceLogs(bt1.newLogs, logs)
                /\ currentManualCount' =
                       CountAfterBatch(bt1.cfg, bt1.currentSeq, currentManualCount)
                /\ effectsPending' = TRUE
                /\ UNCHANGED issued

\* The call resolves: the engine has acted on the directory and answers.
Resolve(call, osFails) ==
    /\ call \in inflight
    /\ osFails => faults < MaxFaults
    /\ \E r \in {HandleRename(fs, call.path, call.cmd, osFails)} :
           /\ fs' = r.fs
           /\ Continue(call, ResolvedEntry(logIdCounter, r.res))
           /\ settled' = Append(settled,
                  [b |-> call.b, i |-> call.i, path |-> call.path,
                   status |-> r.res.status, new_name |-> r.res.new_name,
                   id |-> logIdCounter])
    /\ faults' = IF osFails THEN faults + 1 ELSE faults
    /\ UNCHANGED <<activeTab, serialStart, manualIncrement, fields, configRef,
                   isDragOver, listening, events, drops>>

\* A rejection that is answered by issuing the same call again, and a
\* rejection that is not caught and ends the handler.
RejectRetried(call) ==
    /\ call \in inflight
    /\ faults < MaxFaults
    /\ issued' = Append(issued, call)
    /\ faults' = faults + 1
    /\ UNCHANGED <<activeTab, serialStart, manualIncrement, currentManualCount,
                   fields, configRef, effectsPending, isDragOver, listening,
                   logs, logIdCounter, fs, batches, inflight, settled, events,
                   drops>>

RejectUncaught(call) ==
    /\ call \in inflight
    /\ faults < MaxFaults
    /\ inflight' = inflight \ {call}
    /\ batches' = [batches EXCEPT ![call.b].pc = "aborted"]
    /\ settled' = Append(settled,
           [b |-> call.b, i |-> call.i, path |-> call.path,
            status |-> "Rejected", new_name |-> << >>, id |-> logIdCounter])
    /\ faults' = faults + 1
    /\ UNCHANGED <<activeTab, serialStart, manualIncrement, currentManualCount,
                   fields, configRef, effectsPending, isDragOver, listening,
                   logs, logIdCounter, fs, issued, events, drops>>

\* The call rejects (the catch branch): the engine did not act.
Reject(call) ==
    /\ call \in inflight
    /\ faults < MaxFaults
    /\ Continue(call, RejectedEntry(logIdCounter, call.path))
    /\ settled' = Append(settled,
           [b |-> call.b, i |-> call.i, path |-> call.path,
            status |-> "Rejected", new_name |-> << >>, id |-> logIdCounter])
    /\ faults' = faults + 1
    /\ UNCHANGED <<activeTab, serialStart, manualIncrement, fields, configRef,
                   isDragOver, listening, events, drops, fs>>

\* lines 84-97: the render scheduled by a finished batch runs and its effect
\* copies the state into configRef.  (The effect of lines 99-104 does not run:
\* neither serialStart nor manualIncrement changed.)
Commit ==
    /\ effectsPending
    /\ configRef' = Snapshot(activeTab, serialStart, manualIncrement,
                             currentManualCount, fields)
    /\ effectsPending' = FALSE
    /\ UNCHANGED <<activeTab, serialStart, manualIncrement, currentManualCount,
                   fields, isDragOver, listening, logs, logIdCounter, fs,
                   batches, inflight, issued, settled, events, drops, faults>>

\* lines 119-127: an "enter" event, and an "over" or "leave" event.
DragEvent(type) ==
    /\ listening
    /\ events < MaxEvents
    /\ isDragOver' = (type = "enter")
    /\ events' = events + 1
    /\ UNCHANGED <<activeTab, serialStart, manualIncrement, currentManualCount,
                   fields, configRef, effectsPending, listening, logs,
                   logIdCounter, fs, batches, inflight, issued, settled, drops, faults>>

\* lines 130-132: a drop without paths.
EmptyDrop ==
    /\ listening
    /\ events < MaxEvents
    /\ isDragOver' = FALSE
    /\ events' = events + 1
    /\ UNCHANGED <<activeTab, serialStart, manualIncrement, currentManualCount,
                   fields, configRef, effectsPending, listening, logs,
                   logIdCounter, fs, batches, inflight, issued, settled, drops, faults>>

\* A cleanup that also drops the calls still in flight.
UnlistenCancelling ==
    /\ listening
    /\ events < MaxEvents
    /\ listening' = FALSE
    /\ inflight' = {}
    /\ events' = events + 1
    /\ UNCHANGED <<activeTab, serialStart, manualIncrement, currentManualCount,
                   fields, configRef, effectsPending, isDragOver, logs,
                   logIdCounter, fs, batches, issued, settled, drops, faults>>

\* lines 228-230: the cleanup of the effect removes the listener.
Unlisten ==
    /\ listening
    /\ events < MaxEvents
    /\ listening' = FALSE
    /\ events' = events + 1
    /\ UNCHANGED <<activeTab, serialStart, manualIncrement, currentManualCount,
                   fields, configRef, effectsPending, isDragOver, logs,
                   logIdCounter, fs, batches, inflight, issued, settled, drops, faults>>

Edit ==
    \/ \E t \in Modes : SelectTab(t)
    \/ \E f \in TextFields : \E v \in TextChoices(f) : SetText(f, v)
    \/ \E f \in BoolFields : ToggleBool(f)
    \/ \E f \in PosFields : \E v \in {"start", "end"} : SelectPos(f, v)
    \/ \E d \in {-1, 1} : SerialPadStep(d)
    \/ \E d \in {-1, 1} : TrimCountStep(d)
    \/ \E d \in {-1, 1} : SerialStartStep(d)
    \/ \E v \in BOOLEAN : SetManualIncrement(v)

Next ==
    \/ Edit
    \/ \E p \in Payloads : Drop(p)
    \/ \E c \in inflight : \E f \in BOOLEAN : Resolve(c, f)
    \/ \E c \in inflight : Reject(c)
    \/ Commit
    \/ \E t \in {"enter", "over", "leave"} : DragEvent(t)
    \/ EmptyDrop
    \/ Unlisten

Spec == Init /\ [][Next]_vars

(***************************************************************************)
(* A second specification: the user has configured one tab before the      *)
(* first drop (every such configuration is reached by edits from the state *)
(* after construction), and then drops one batch of files.                 *)
(***************************************************************************)
ConfiguredFields(tab) ==
    CASE tab = "fixed" ->
            {[InitFields EXCEPT !.fixedName = n, !.keepExt = k] :
                n \in TextChoices("fixedName"), k \in BOOLEAN}
      [] tab = "serial" ->
            {[InitFields EXCEPT !.serialText = t, !.serialPosition = p,
                                !.keepExt = k, !.removeOriginal = r] :
                t \in TextChoices("serialText"), p \in {"start", "end"},
                k \in BOOLEAN, r \in BOOLEAN}
      [] tab = "replace" ->
            {[InitFields EXCEPT !.replaceFrom = f, !.replaceTo = t, !.useRegex = u] :
                f \in TextChoices("replaceFrom"), t \in TextChoices("replaceTo"),
                u \in BOOLEAN}
      [] tab = "add" ->
            {[InitFields EXCEPT !.addText = t, !.addPos = p] :
                t \in TextChoices("addText"), p \in {"start", "end"}}
      [] tab = "trim" ->
            {[InitFields EXCEPT !.trimCount = c, !.trimPos = p] :
                c \in 0..2, p \in {"start", "end"}}
      [] tab = "extension" ->
            {[InitFields EXCEPT !.newExtension = e] :
                e \in TextChoices("newExtension")}

InitConfigured ==
    /\ activeTab \in Modes
    /\ serialStart = 1
    /\ manualIncrement = FALSE
    /\ currentManualCount = 1
    /\ fields \in ConfiguredFields(activeTab)
    /\ InitRest

NextDrops ==
    \/ \E p \in Payloads : batches = << >> /\ Drop(p)
    \/ \E c \in inflight : \E f \in BOOLEAN : Resolve(c, f)
    \/ \E c \in inflight : Reject(c)
    \/ Commit

SpecConfigured == InitConfigured /\ [][NextDrops]_vars

(***************************************************************************)
(* A third specification: every call that has been issued settles.         *)
(***************************************************************************)
Settle == \E c \in inflight : Resolve(c, FALSE)

FairSpec == Spec /\ WF_vars(Settle)

(***************************************************************************)
(* A fourth specification: the user drops one more file than the log       *)
(* holds, on the Serial tab, and then (while the last calls of that batch  *)
(* are out, or after it) one more file.  An OS failure or a rejection hits *)
(* one of the first files of a batch.                                      *)
(***************************************************************************)
\* f1.jpg, f2.jpg, ...
LongPayload ==
    [k \in 1..(LogCap + 1) |-> <<"f">> \o Digits(k) \o <<".", "j", "p", "g">>]

LongFs ==
    [n \in Files \cup Range(LongPayload) |->
        IF n \in Files THEN InitialFs[n]
        ELSE Cardinality(Files) + (CHOOSE k \in DOMAIN LongPayload : LongPayload[k] = n)]

InitLong ==
    /\ activeTab = "serial"
    /\ serialStart = 1
    /\ manualIncrement \in BOOLEAN
    /\ currentManualCount = 1
    /\ fields = InitFields
    /\ configRef = Snapshot(activeTab, serialStart, manualIncrement,
                            currentManualCount, fields)
    /\ effectsPending = FALSE
    /\ isDragOver = FALSE
    /\ listening = TRUE
    /\ logs = << >>
    /\ logIdCounter = 0
    /\ fs = LongFs
    /\ batches = << >>
    /\ inflight = {}
    /\ issued = << >>
    /\ settled = << >>
    /\ events = 0
    /\ drops = 0
    /\ faults = 0

NextLong ==
    \/ batches = << >> /\ Drop(LongPayload)
    \/ batches # << >> /\ Len(settled) >= LogCap - 1 /\ Drop(<<AbJpg>>)
    \/ \E c \in inflight : \E f \in BOOLEAN : (f => c.i <= 1) /\ Resolve(c, f)
    \/ \E c \in inflight : c.i <= 1 /\ Reject(c)
    \/ Commit

SpecLong == InitLong /\ [][NextLong]_vars

(***************************************************************************)
(* Vocabulary of the properties.                                           *)
(***************************************************************************)
Batches == DOMAIN batches

Running(b) == batches[b].pc = "await"

Finished(b) == batches[b].pc = "done"

Idle == \A b \in Batches : Finished(b)

Manual(b) == batches[b].cfg.manualIncrement

\* The calls of batch b, in the order issued, and its settled calls.
CallsOf(b) == SelectSeq(issued, LAMBDA c : c.b = b)

SettledOf(b) == SelectSeq(settled, LAMBDA r : r.b = b)

NumsOf(b) == [k \in DOMAIN CallsOf(b) |-> CallsOf(b)[k].num]

\* This step is a drop that starts a batch; this step ends batch b.
Starts == Len(batches') = Len(batches) + 1

Ends(b) == Running(b) /\ batches'[b].pc = "done"

(***************************************************************************)
(* C1.  Batch policy: with manual increment off in the snapshot, the call  *)
(* for the path at index i takes serialStart + i (and a Serial command     *)
(* carries it), serialStart being the value configured when the drop was   *)
(* received; the number depends on nothing else, so two batches with the   *)
(* same serialStart take the same numbers; and a batch under this policy   *)
(* leaves currentManualCount as it was.                                    *)
(***************************************************************************)
BatchNumbers ==
    \A k \in DOMAIN issued :
        LET c == issued[k]
            cfg == batches[c.b].cfg
        IN  ~cfg.manualIncrement =>
                /\ c.num = cfg.serialStart + c.i
                /\ c.cmd.mode = "Serial" => c.cmd.config.number = cfg.serialStart + c.i
                /\ \A m \in DOMAIN issued :
                       LET d == issued[m]
                       IN  (/\ ~batches[d.b].cfg.manualIncrement
                            /\ batches[d.b].cfg.serialStart = cfg.serialStart
                            /\ d.i = c.i) => d.num = c.num

DropReadsConfiguredStart ==
    Starts => batches'[Len(batches')].cfg.serialStart = serialStart

BatchPolicyKeepsCounter ==
    \A b \in Batches :
        (Ends(b) /\ ~Manual(b)) => currentManualCount' = currentManualCount

C1_BatchPolicyNumbering ==
    /\ []BatchNumbers
    /\ [][DropReadsConfiguredStart /\ BatchPolicyKeepsCounter]_vars

\* Two finished two-path Serial batches under the batch policy.
C1_Witness ==
    \E b1, b2 \in Batches :
        /\ b1 # b2
        /\ \A b \in {b1, b2} :
              /\ Finished(b) /\ ~Manual(b)
              /\ batches[b].cfg.activeTab = "serial"
              /\ Len(batches[b].paths) = 2
        /\ NumsOf(b1) = <<1, 2>> /\ NumsOf(b2) = <<1, 2>>

(***************************************************************************)
(* C2.  Manual-increment persistence: a batch of N paths dropped in manual *)
(* mode while no batch is running starts at the counter the previous batch *)
(* left, takes c, c+1, ..., c+N-1 in input order and leaves                *)
(* currentManualCount = c+N; and while manual mode stays on nothing but a  *)
(* batch ending changes the counter.                                       *)
(***************************************************************************)
RanAlone(b) == b = Len(batches) /\ \A o \in Batches \ {b} : Finished(o)

ManualDropStartsAtCounter ==
    (Starts /\ manualIncrement /\ Idle) =>
        issued'[Len(issued')].num = currentManualCount

ManualBatchConsumes ==
    \A b \in Batches :
        (Ends(b) /\ Manual(b) /\ RanAlone(b)) =>
            LET c == NumsOf(b)[1]
                n == Len(batches[b].paths)
            IN  /\ NumsOf(b) = [k \in 1..n |-> c + k - 1]
                /\ currentManualCount' = c + n

CounterOnlyMovedByBatchEnd ==
    (manualIncrement /\ manualIncrement' /\ ~\E b \in Batches : Ends(b)) =>
        currentManualCount' = currentManualCount

C2_ManualPersistence ==
    [][/\ ManualDropStartsAtCounter
       /\ ManualBatchConsumes
       /\ CounterOnlyMovedByBatchEnd]_vars

(***************************************************************************)
(* C3.  The handler serializes batches in manual mode: two manual batches  *)
(* never run at once, no number is taken by two calls of manual batches,   *)
(* and when only drops have happened and every batch has ended the counter *)
(* is its initial value plus the number of paths processed.                *)
(***************************************************************************)
C3_ManualBatchesSerialized ==
    /\ \A b1, b2 \in Batches :
          (b1 # b2 /\ Manual(b1) /\ Manual(b2)) => ~(Running(b1) /\ Running(b2))
    /\ \A k, m \in DOMAIN issued :
          (k # m /\ Manual(issued[k].b) /\ Manual(issued[m].b)) =>
              issued[k].num # issued[m].num
    /\ (manualIncrement /\ Idle /\ events = drops /\ \A b \in Batches : Manual(b)) =>
          currentManualCount = 1 + Len(settled)

(***************************************************************************)
(* C4.  Batch collision: in a Fixed batch with a non-empty name and        *)
(* keep_ext on, acting alone on a directory where the destination names    *)
(* are free, a path whose extension equals that of an earlier, renamed     *)
(* path of the batch yields AlreadyExists (unless its call rejects), its   *)
(* source stays in place and the earlier file keeps the destination; a     *)
(* path with no such earlier path does not yield AlreadyExists.            *)
(***************************************************************************)
Ext(name) == Split(name).ext

ActsAlone(b) == \A k \in DOMAIN settled : settled[k].b = b

FixedKeepingExt(b) ==
    LET cfg == batches[b].cfg
    IN  /\ cfg.activeTab = "fixed"
        /\ cfg.fixedName # << >>
        /\ cfg.keepExt
        /\ \A n \in Files : Join(cfg.fixedName, TRUE, Ext(n)) \notin Files

\* The earlier calls of the batch that renamed a path with the extension of
\* the path of settled[q].
RenamedSameExt(q) ==
    {p \in 1..(q - 1) : /\ settled[p].b = settled[q].b
                        /\ settled[p].status = "Success"
                        /\ Ext(settled[p].path) = Ext(settled[q].path)}

C4_BatchCollision ==
    \A q \in DOMAIN settled :
        LET r == settled[q]
        IN  (FixedKeepingExt(r.b) /\ ActsAlone(r.b)) =>
                /\ (RenamedSameExt(q) # {} /\ r.status # "Rejected") =>
                      /\ r.status = "AlreadyExists"
                      /\ r.path \in DOMAIN fs
                      /\ fs[r.path] = InitialFs[r.path]
                      /\ \A p \in RenamedSameExt(q) :
                            /\ settled[p].new_name \in DOMAIN fs
                            /\ fs[settled[p].new_name] = InitialFs[settled[p].path]
                /\ RenamedSameExt(q) = {} => r.status # "AlreadyExists"
                /\ (RenamedSameExt(q) = {} /\ faults = 0) => r.status = "Success"

\* One path was renamed and the next, of the same extension, collided; and two
\* paths of different extensions were both renamed.
C4_Witness ==
    /\ Len(settled) = 2
    /\ FixedKeepingExt(1)
    /\ settled[1].status = "Success"
    /\ Ext(settled[1].path) = Ext(settled[2].path)
    /\ settled[2].status = "AlreadyExists"
    /\ settled[2].path \in DOMAIN fs

C4_WitnessNoCollision ==
    /\ Len(settled) = 2
    /\ FixedKeepingExt(1)
    /\ settled[1].status = "Success"
    /\ Ext(settled[1].path) # Ext(settled[2].path)
    /\ settled[2].status = "Success"

(***************************************************************************)
(* C5.  Extension protection: a path with an extension that was renamed    *)
(* under a tab other than Extension (Fixed and Serial with keepExt on) has *)
(* a new name with the same extension.                                     *)
(***************************************************************************)
PreservingCfg(cfg) ==
    /\ cfg.activeTab # "extension"
    /\ cfg.activeTab \in {"fixed", "serial"} => cfg.keepExt

C5_ExtensionProtected ==
    \A q \in DOMAIN settled :
        LET r == settled[q]
        IN  (/\ r.status = "Success"
             /\ PreservingCfg(batches[r.b].cfg)
             /\ Split(r.path).hasExt) =>
                /\ Split(r.new_name).hasExt
                /\ Ext(r.new_name) = Ext(r.path)

\* A rename under the Add tab that put text holding a "." before the stem,
\* and one under Serial.
C5_Witness ==
    \E q \in DOMAIN settled :
        LET r == settled[q]
        IN  /\ r.status = "Success"
            /\ batches[r.b].cfg.activeTab = "add"
            /\ batches[r.b].cfg.addPos = "start"
            /\ r.new_name # r.path
            /\ Ext(r.new_name) = <<"j", "p", "g">>

(***************************************************************************)
(* C6.  Exactly once per path: the calls of a batch are those of its paths *)
(* 0, 1, ... in order, each issued once, each settled at most once; there  *)
(* is one entry in the batch's newLogs per settled call, for the path of   *)
(* that call; and a finished batch has issued and settled a call for every *)
(* one of its paths.                                                       *)
(***************************************************************************)
C6_ExactlyOncePerPath ==
    \A b \in Batches :
        LET cs == CallsOf(b)
            ss == SettledOf(b)
            bt == batches[b]
            n  == Len(bt.paths)
        IN  /\ Len(cs) <= n
            /\ \A k \in DOMAIN cs : cs[k].i = k - 1 /\ cs[k].path = bt.paths[k]
            /\ Len(ss) <= Len(cs)
            /\ \A k \in DOMAIN ss : ss[k].i = k - 1
            /\ Len(bt.newLogs) = Len(ss)
            /\ \A k \in DOMAIN ss :
                  LET e == bt.newLogs[Len(ss) + 1 - k]
                  IN  e.path = bt.paths[k] /\ e.id = ss[k].id
            /\ Finished(b) => (Len(cs) = n /\ Len(ss) = n)
            /\ ~Finished(b) => Len(ss) < n

\* A finished two-path batch whose first call was rejected.
C6_Witness ==
    \E b \in Batches :
        /\ Finished(b)
        /\ Len(batches[b].paths) = 2
        /\ SettledOf(b)[1].status = "Rejected"
        /\ Len(CallsOf(b)) = 2

(***************************************************************************)
(* C7.  One path's failure never halts the batch: after a call settled     *)
(* without Success (a failure status or a rejection) the call for the next *)
(* path has been issued, or, after the last path, the batch has ended; a   *)
(* running batch always has its next call in flight; and a batch that ends *)
(* surfaces its entries and, in manual mode, writes the counter.           *)
(***************************************************************************)
FailureNeverHalts ==
    \A b \in Batches :
        LET cs == CallsOf(b)
            ss == SettledOf(b)
            n  == Len(batches[b].paths)
        IN  /\ \A k \in DOMAIN ss :
                  ss[k].status # "Success" =>
                      IF k < n
                      THEN Len(cs) >= k + 1 /\ cs[k + 1].path = batches[b].paths[k + 1]
                      ELSE Finished(b)
            /\ ~Finished(b) => \E c \in inflight : c.b = b /\ c.i = Len(ss)

BatchEndSurfaces ==
    \A b \in Batches :
        Ends(b) =>
            LET n == Len(batches[b].paths)
            IN  /\ Len(logs') = Min(Len(logs) + n, LogCap)
                /\ \A k \in 1..Min(n, LogCap) : logs'[k] = batches'[b].newLogs[k]
                /\ Manual(b) => currentManualCount' = NumsOf(b)[1] + n

C7_FailureNeverHaltsBatch ==
    /\ []FailureNeverHalts
    /\ [][BatchEndSurfaces]_vars

\* A finished two-path manual batch whose first call failed and whose second
\* call succeeded.
C7_Witness ==
    \E b \in Batches :
        /\ Finished(b) /\ Manual(b)
        /\ Len(batches[b].paths) = 2
        /\ SettledOf(b)[1].status \in {"IoError", "EmptyName", "Rejected"}
        /\ SettledOf(b)[2].status = "Success"
        /\ Len(logs) = 2
        /\ currentManualCount = 3

(***************************************************************************)
(* C8.  Sequential processing: a batch has at most one call outstanding;   *)
(* its calls are issued in input order; and the call for a path is issued  *)
(* only when the calls of all earlier paths have settled.                  *)
(***************************************************************************)
C8_SequentialWithinBatch ==
    \A b \in Batches :
        LET cs == CallsOf(b)
            ss == SettledOf(b)
            out == {c \in inflight : c.b = b}
        IN  /\ Cardinality(out) <= 1
            /\ \A k \in DOMAIN cs : cs[k].i = k - 1 /\ cs[k].path = batches[b].paths[k]
            /\ Len(cs) <= Len(ss) + 1
            /\ \A c \in out : c = cs[Len(cs)] /\ Len(ss) = c.i
            /\ \A k \in DOMAIN ss : ss[k].i = k - 1

\* The second call of a batch is outstanding, the first has settled.
C8_Witness ==
    \E b \in Batches : \E c \in inflight :
        /\ c.b = b /\ c.i = 1
        /\ Len(SettledOf(b)) = 1
        /\ Len(CallsOf(b)) = 2

(***************************************************************************)
(* C9.  No mid-batch cancellation: if every issued call settles, every     *)
(* batch ends, having processed all its paths; whatever happens meanwhile, *)
(* a batch that has not ended has a call in flight, its paths and snapshot *)
(* never change, an ended batch stays ended, and no entry is in the        *)
(* surfaced log before its batch has ended.                                *)
(***************************************************************************)
NothingStopsABatch ==
    /\ \A b \in Batches :
          /\ ~Finished(b) => \E c \in inflight : c.b = b
          /\ Finished(b) => Len(SettledOf(b)) = Len(batches[b].paths)
    /\ \A k \in DOMAIN logs : \E q \in DOMAIN settled :
          settled[q].id = logs[k].id /\ Finished(settled[q].b)

BatchKeepsItsInput ==
    \A b \in Batches :
        /\ batches'[b].paths = batches[b].paths
        /\ batches'[b].cfg = batches[b].cfg
        /\ Finished(b) => batches'[b] = batches[b]

C9_NoMidBatchCancellation ==
    /\ \A b \in 1..MaxDrops :
          (Len(batches) >= b) ~> (Len(batches) >= b /\ Finished(b))
    /\ []NothingStopsABatch
    /\ [][BatchKeepsItsInput]_vars

\* A two-path manual batch ended after the manual box was unticked while it
\* was running: the counter it wrote is still there.
C9_Witness ==
    \E b \in Batches :
        /\ Finished(b) /\ Manual(b)
        /\ Len(batches[b].paths) = 2
        /\ ~manualIncrement
        /\ currentManualCount = 3
        /\ serialStart = 1

(***************************************************************************)
(* C10.  Result surfacing.  As claimed: the log is always ordered most     *)
(* recently produced result first.                                         *)
(***************************************************************************)
C10_GloballyNewestFirst ==
    \A k, m \in DOMAIN logs : k < m => logs[k].id > logs[m].id

(***************************************************************************)
(* C10, amended.  When a batch ends, the log becomes the entries of its    *)
(* paths, last path first, followed by the log as it was, cut to LogCap    *)
(* entries; so the log is ordered by batch end, and is most recently       *)
(* produced first whenever the calls of different batches did not          *)
(* interleave.                                                             *)
(***************************************************************************)
\* The entry of the k-th path of batch b, from the history of settled calls.
ProducedFor(b, k) == CHOOSE r \in Range(settled') : r.b = b /\ r.i = k - 1

BlockSurfaced ==
    \A b \in Batches :
        Ends(b) =>
            LET n == Len(batches[b].paths)
                block == [k \in 1..n |-> ProducedFor(b, n + 1 - k)]
            IN  /\ Len(logs') = Min(n + Len(logs), LogCap)
                /\ \A k \in DOMAIN logs' :
                      IF k <= n
                      THEN /\ logs'[k].id = block[k].id
                           /\ logs'[k].path = batches[b].paths[n + 1 - k]
                           /\ logs'[k].success = (block[k].status = "Success")
                      ELSE logs'[k] = logs[k - n]

LogsChangeOnlyAtBatchEnd ==
    (\A b \in Batches : ~Ends(b)) => logs' = logs

NotInterleaved ==
    \A k, m \in DOMAIN settled : k < m => settled[k].b <= settled[m].b

C10_BlocksNewestBatchFirst ==
    /\ [][BlockSurfaced /\ LogsChangeOnlyAtBatchEnd]_vars
    /\ [](NotInterleaved => C10_GloballyNewestFirst)

\* Two two-path batches have ended after their calls interleaved, and the log
\* of four entries is not in the order the results were produced.
C10_Witness ==
    /\ Len(batches) = 2 /\ Idle
    /\ Len(logs) = 4
    /\ ~NotInterleaved
    /\ ~C10_GloballyNewestFirst

(***************************************************************************)
(* C11.  Manual counter initialisation: in every state where manual        *)
(* increment is off and no render is pending, currentManualCount equals    *)
(* serialStart, so that switching manual mode on starts at the configured  *)
(* start; also when the box was unticked while a batch was running.        *)
(***************************************************************************)
C11_CounterIsStartWhileManualOff ==
    (~manualIncrement /\ ~effectsPending) => currentManualCount = serialStart

(***************************************************************************)
(* C12.  Failure reporting per file: the entry of a processed path is      *)
(* marked success exactly when its call resolved with status "Success"; a  *)
(* failing path has an entry marked not-success that carries the path of   *)
(* that file and the failure status text (the error text when the call     *)
(* rejected); an entry, once made, stays in its batch's list behind the    *)
(* later ones, and the batch end surfaces all of them.                     *)
(***************************************************************************)
\* The text shown for a settled call.
StatusText(r) ==
    CASE r.status = "Success"  -> <<"->">> \o r.new_name
      [] r.status = "Rejected" -> <<"Error: rejected">>
      [] OTHER                 -> <<r.status>>

EntriesReport ==
    \A b \in Batches :
        LET ss == SettledOf(b)
            bt == batches[b]
        IN  /\ Len(bt.newLogs) = Len(ss)
            /\ \A k \in DOMAIN ss :
                  LET e == bt.newLogs[Len(ss) + 1 - k]
                  IN  /\ e.success <=> (ss[k].status = "Success")
                      /\ e.path = bt.paths[k]
                      /\ e.status = StatusText(ss[k])
                      /\ e.id = ss[k].id

EntriesAreKept ==
    \A b \in Batches :
        LET old == batches[b].newLogs
            new == batches'[b].newLogs
        IN  /\ new = old \/ (new # << >> /\ Tail(new) = old)
            /\ Ends(b) =>
                  \A k \in 1..Min(Len(new), LogCap) : logs'[k] = new[k]

C12_FailureReportedPerFile ==
    /\ []EntriesReport
    /\ [][EntriesAreKept]_vars

\* A finished batch whose first call was rejected and whose second call
\* failed or succeeded: both entries are in the log.
C12_Witness ==
    \E b \in Batches :
        /\ Finished(b)
        /\ Len(batches[b].paths) = 2
        /\ Len(logs) >= 2
        /\ logs[2].path = batches[b].paths[1]
        /\ logs[2].status = <<"Error: rejected">> /\ ~logs[2].success
        /\ logs[1].path = batches[b].paths[2]
        /\ logs[1].success

\* A finished batch with an entry of a call that resolved with a failure.
C12_WitnessFailureStatus ==
    \E b \in Batches : \E k \in DOMAIN logs :
        /\ Finished(b)
        /\ logs[k].status \in {<<"AlreadyExists">>, <<"EmptyName">>, <<"IoError">>}
        /\ ~logs[k].success
        /\ logs[k].path \in Range(batches[b].paths)

(***************************************************************************)
(* C13.  Config snapshot per batch: the snapshot of a batch is             *)
(* configRef.current as read when the drop was received and never changes; *)
(* every command of the batch is built from it, so tab switches, field     *)
(* edits, serialStart changes and manual toggles made while the batch runs *)
(* change neither the mode, nor the config fields, nor the numbering       *)
(* policy of the commands still to be issued, and all commands of a batch  *)
(* carry the same mode.                                                    *)
(***************************************************************************)
ModeName(tab) ==
    CASE tab = "fixed" -> "Fixed" [] tab = "serial" -> "Serial"
      [] tab = "replace" -> "Replace" [] tab = "add" -> "Add"
      [] tab = "trim" -> "Trim" [] tab = "extension" -> "Extension"

\* The config of a command without the number of a Serial command.
Unnumbered(cmd) ==
    IF cmd.mode = "Serial" THEN [cmd EXCEPT !.config.number = 0] ELSE cmd

CommandsFromSnapshot ==
    \A k \in DOMAIN issued :
        LET c   == issued[k]
            cfg == batches[c.b].cfg
        IN  /\ c.cmd.mode = ModeName(cfg.activeTab)
            /\ c.cmd = BuildCmd(cfg, c.num)
            /\ c.num = IF cfg.manualIncrement THEN cfg.currentManualCount + c.i
                       ELSE cfg.serialStart + c.i
            /\ \A m \in DOMAIN issued :
                  issued[m].b = c.b => Unnumbered(issued[m].cmd) = Unnumbered(c.cmd)

SnapshotReadAtDrop == Starts => batches'[Len(batches')].cfg = configRef

SnapshotFrozen == \A b \in Batches : batches'[b].cfg = batches[b].cfg

C13_SnapshotPerBatch ==
    /\ []CommandsFromSnapshot
    /\ [][SnapshotReadAtDrop /\ SnapshotFrozen]_vars

\* The second call of a batch is out for a snapshot that the configuration
\* no longer equals: the tab, a field, serialStart or the manual box changed
\* after the drop.
C13_Witness ==
    \E b \in Batches : \E c \in inflight :
        /\ c.b = b /\ c.i = 1
        /\ batches[b].cfg # configRef
        /\ \/ batches[b].cfg.activeTab # activeTab
           \/ batches[b].cfg.manualIncrement # manualIncrement
           \/ batches[b].cfg.serialStart # serialStart
        /\ c.cmd.mode = ModeName(batches[b].cfg.activeTab)

(***************************************************************************)
(* C14.  Manual counter advances per path unconditionally: a batch of N    *)
(* paths dropped in manual mode when every earlier batch had ended, and    *)
(* ending with no later batch dropped and manual mode on, leaves           *)
(* currentManualCount at its value when the drop was received plus N,      *)
(* whatever the outcomes of the calls and whatever the tab.                *)
(***************************************************************************)
NonOverlapping(b) == b = Len(batches) /\ batches[b].atDrop.idle

C14_ManualBatchAdvancesByN ==
    [][\A b \in Batches :
          (Ends(b) /\ Manual(b) /\ NonOverlapping(b) /\ manualIncrement) =>
              currentManualCount' = batches[b].atDrop.count + Len(batches[b].paths)]_vars

(***************************************************************************)
(* C15.  Bounded log: the surfaced log never holds more than LogCap        *)
(* entries; when a batch ends, the log is the batch's entries, last path   *)
(* first, then the earlier log, and what does not fit is dropped from the  *)
(* tail: the oldest entries, which for a batch of more than LogCap paths   *)
(* are the results of its first-processed paths.                           *)
(***************************************************************************)
LogBounded == Len(logs) <= LogCap

NewestKept ==
    \A b \in Batches :
        Ends(b) =>
            LET n   == Len(batches[b].paths)
                new == batches'[b].newLogs
            IN  /\ Len(logs') = Min(n + Len(logs), LogCap)
                /\ \A k \in DOMAIN logs' :
                      IF k <= n
                      THEN logs'[k] = new[k] /\ logs'[k].path = batches[b].paths[n + 1 - k]
                      ELSE logs'[k] = logs[k - n]
                /\ \A j \in 1..(n - LogCap) :
                      \A k \in DOMAIN logs' : logs'[k] # new[n + 1 - j]

C15_BoundedLog ==
    /\ []LogBounded
    /\ [][NewestKept]_vars

\* The batch of LogCap + 1 paths has ended: the log is full, the result of
\* the last path is at the front and the result of the first path is gone.
C15_Witness ==
    \E b \in Batches :
        /\ Finished(b)
        /\ batches[b].paths = LongPayload
        /\ Len(logs) = LogCap
        /\ logs[1].path = LongPayload[LogCap + 1]
        /\ logs[LogCap].path = LongPayload[2]
        /\ \A k \in DOMAIN logs : logs[k].path # LongPayload[1]

\* A one-path batch ended on a full log: its entry is at the front and the
\* oldest entry fell off the tail.
C15_WitnessTail ==
    /\ Len(batches) = 2 /\ Idle
    /\ Len(logs) = LogCap
    /\ logs[1].path = AbJpg
    /\ logs[LogCap].path = LongPayload[3]

(***************************************************************************)
(* C16.  No lost log entries under overlapping batches: whatever the       *)
(* interleaving, when every batch has ended the log holds the entries of   *)
(* every batch (up to LogCap entries), the entries of a batch forming one  *)
(* contiguous block in reverse input order; the ids of all entries are     *)
(* pairwise distinct; and a batch end leaves the earlier entries in the    *)
(* log, behind its own.                                                    *)
(***************************************************************************)
\* The entries of batch b stand at logs[o + 1], ..., logs[o + n], last path
\* first, as far as the cap lets them.
BlockAt(b, o) ==
    LET n  == Len(batches[b].paths)
        ss == SettledOf(b)
    IN  \A k \in 1..n :
            o + k <= LogCap =>
                /\ o + k \in DOMAIN logs
                /\ logs[o + k].id = ss[n + 1 - k].id
                /\ logs[o + k].path = batches[b].paths[n + 1 - k]

AllSurfaced ==
    Idle =>
        /\ Len(logs) = Min(Len(settled), LogCap)
        /\ \A b \in Batches : \E o \in 0..Len(settled) : BlockAt(b, o)

IdsDistinct ==
    /\ \A k, m \in DOMAIN logs : k # m => logs[k].id # logs[m].id
    /\ \A b1, b2 \in Batches :
          \A k1 \in DOMAIN batches[b1].newLogs : \A k2 \in DOMAIN batches[b2].newLogs :
              (b1 # b2 \/ k1 # k2) =>
                  batches[b1].newLogs[k1].id # batches[b2].newLogs[k2].id

NoOverwrite ==
    \A b \in Batches :
        Ends(b) =>
            \A k \in DOMAIN logs :
                k + Len(batches[b].paths) <= LogCap =>
                    /\ k + Len(batches[b].paths) \in DOMAIN logs'
                    /\ logs'[k + Len(batches[b].paths)] = logs[k]

C16_NoLostEntries ==
    /\ [](AllSurfaced /\ IdsDistinct)
    /\ [][NoOverwrite]_vars

\* The second batch was dropped and its call settled while the first batch
\* was running; the first batch ended last, and the log holds the three
\* entries, the first batch's two in front.
C16_Witness ==
    /\ Len(batches) = 2 /\ Idle
    /\ Len(batches[1].paths) = 2 /\ Len(batches[2].paths) = 1
    /\ settled[1].b = 2
    /\ Len(logs) = 3
    /\ logs[1].path = batches[1].paths[2]
    /\ logs[2].path = batches[1].paths[1]
    /\ logs[3].path = batches[2].paths[1]

=============================================================================
